---- MODULE Spec2Model ----
(***************************************************************************)
(* A model of the YouTube player front-end: the bounded play history, the  *)
(* URL validator and the controller of the external player process.  The   *)
(* repository holds two variants of the application, src/main.py (Tk) and  *)
(* src/src/main.py (Qt); the variable impl says which one is running.      *)
(*                                                                         *)
(* Timestamps are datetime.now().isoformat() strings that the code         *)
(* compares as strings; for one clock they order as the instants do, so    *)
(* the model keeps the instant, a reading of the variable clock.           *)
(* The 'title' field the Tk variant stores with an entry is a display      *)
(* string derived from the URL alone and is left out.                      *)
(***************************************************************************)
EXTENDS Integers, Sequences, FiniteSets, TLC

\* ---- bounds of the model ----
MaxProcs == 3        \* player processes spawned in one run
MaxClock == 2        \* ticks of the wall clock in one run
MaxHist  == 2        \* largest max_history entered in the settings dialog

\* ---- program constants ----
DefaultMaxHistory == 10   \* 'max_history': '10' of default_config

\* ---- values ----
None  == 0                       \* self.process = None
Pids  == 1..MaxProcs
Impls == {"tk", "qt"}

\* Text found in the URL entry when play is requested: for the runs that
\* exercise the process controller, and for those that fill the history.
ControllerTexts == { "", "  ", "https://vimeo.com/12345", " youtu.be/a\n" }

HistoryTexts ==
    { "youtu.be/a", "https://www.youtube.com/watch?v=b", "youtube.com/shorts/c" }

\* ---- str.strip() ----
Whitespace == {" ", "\t", "\n", "\r"}

RECURSIVE lstrip(_)
lstrip(s) ==
    IF Len(s) > 0 /\ Head(s) \in Whitespace THEN lstrip(Tail(s)) ELSE s

RECURSIVE rstrip(_)
rstrip(s) ==
    IF Len(s) > 0 /\ SubSeq(s, Len(s), Len(s)) \in Whitespace
    THEN rstrip(SubSeq(s, 1, Len(s) - 1))
    ELSE s

strip(s) == rstrip(lstrip(s))

\* ---- validate_url: re.match of five patterns, each                    ----
\* ----   ^(https?://)?(www\.)?(<literal>[\w-]+(<sep>\S*)?)              ----
WordChars ==
    { "a","b","c","d","e","f","g","h","i","j","k","l","m","n","o","p","q",
      "r","s","t","u","v","w","x","y","z",
      "A","B","C","D","E","F","G","H","I","J","K","L","M","N","O","P","Q",
      "R","S","T","U","V","W","X","Y","Z",
      "0","1","2","3","4","5","6","7","8","9","_" }

Schemes == {"http://", "https://"}

Patterns ==
    { "youtube.com/watch?v=", "youtu.be/", "youtube.com/shorts/",
      "youtube.com/playlist?list=", "youtube.com/live/" }

\* s has lit at position i (1-based)
LitAt(s, i, lit) ==
    /\ i + Len(lit) - 1 <= Len(s)
    /\ SubSeq(s, i, i + Len(lit) - 1) = lit

\* positions after an optional group (one of lits) tried at each position of
\* pos: the group is either skipped or matched
Optional(s, pos, lits) ==
    pos \cup { p[1] + Len(p[2]) :
                 p \in { q \in pos \X lits : LitAt(s, q[1], q[2]) } }

\* re.match(pattern, url): the pattern matches a prefix of url.  After the
\* literal one [\w-] is required; [\w-]* and the optional trailing group
\* match the empty string, so nothing after that can make the match fail.
re_match(lit, url) ==
    \E i \in Optional(url, Optional(url, {1}, Schemes), {"www."}) :
        /\ LitAt(url, i, lit)
        /\ i + Len(lit) <= Len(url)
        /\ SubSeq(url, i + Len(lit), i + Len(lit)) \in WordChars \cup {"-"}

\* validate_url that lets the ID be empty
validate_url_emptyid(url) ==
    \E lit \in Patterns :
        \E i \in Optional(url, Optional(url, {1}, Schemes), {"www."}) :
            LitAt(url, i, lit)

validate_url(url) == \E lit \in Patterns : re_match(lit, url)

\* ---- the history: a dict in insertion order, url -> entry ----
Keys(h) == { h[i].url : i \in 1..Len(h) }

Entry(h, url) == h[CHOOSE i \in 1..Len(h) : h[i].url = url]

\* h without the entries at the positions of drop, order kept
Without(h, drop) ==
    LET F[i \in 0..Len(h)] ==
            IF i = 0 THEN << >>
            ELSE IF i \in drop THEN F[i - 1] ELSE Append(F[i - 1], h[i])
    IN  F[Len(h)]

\* add_entry with the count of a known url left as it was
add_entry_nocount(h, url, now) ==
    IF url \notin Keys(h)
    THEN Append(h, [url |-> url, timestamp |-> now, play_count |-> 1])
    ELSE [i \in 1..Len(h) |->
            IF h[i].url = url THEN [h[i] EXCEPT !.timestamp = now] ELSE h[i]]

\* add_to_history, before it saves: a new url is inserted at the end with
\* play_count 1; a known url keeps its place, counts one more and takes the
\* current time
add_entry(h, url, now) ==
    IF url \notin Keys(h)
    THEN Append(h, [url |-> url, timestamp |-> now, play_count |-> 1])
    ELSE [i \in 1..Len(h) |->
            IF h[i].url = url
            THEN [h[i] EXCEPT !.play_count = @ + 1, !.timestamp = now]
            ELSE h[i]]

\* place (from 0) of position i in sorted(keys, key = timestamp): the sort is
\* stable, so equal timestamps stay in dict order
SortedRank(h, i) ==
    Cardinality({ j \in 1..Len(h) :
                    \/ h[j].timestamp < h[i].timestamp
                    \/ h[j].timestamp = h[i].timestamp /\ j < i })

\* evict by play_count instead of timestamp: the least played go first
evict_least_played(h, max) ==
    IF Len(h) > max
    THEN Without(h, { i \in 1..Len(h) :
                        Cardinality({ j \in 1..Len(h) :
                            \/ h[j].play_count < h[i].play_count
                            \/ h[j].play_count = h[i].play_count /\ j < i })
                          < Len(h) - max })
    ELSE h

\* save_history, the eviction: when len > max_history the first
\* len - max_history keys in timestamp order are deleted
evict(h, max) ==
    IF Len(h) > max
    THEN Without(h, { i \in 1..Len(h) : SortedRank(h, i) < Len(h) - max })
    ELSE h

\* ---- the history file ----
\* kind "ok": a JSON object, data is the members it holds in file order, each
\* a pair of the key and the fields of its value; kind "corrupt": a file
\* json.load cannot parse; kind "unreadable": a path that exists and that
\* open(history_path, 'r') fails on; kind "missing": no file.
NoFile         == [kind |-> "missing", data |-> << >>]
CorruptFile    == [kind |-> "corrupt", data |-> << >>]
UnreadableFile == [kind |-> "unreadable", data |-> << >>]

\* json.dump(self.history, f): one member per key, in dict order
json_dump(h) ==
    [i \in 1..Len(h) |->
        << h[i].url,
           << <<"timestamp", h[i].timestamp>>, <<"play_count", h[i].play_count>> >> >>]

\* the value json.load gives the field name of a member's object
Field(fields, name) ==
    fields[CHOOSE j \in 1..Len(fields) : fields[j][1] = name][2]

\* json.load that loses the last member of the object
json_load_lossy(members) ==
    [i \in 1..(Len(members) - 1) |->
        [url |-> members[i][1],
         timestamp |-> Field(members[i][2], "timestamp"),
         play_count |-> Field(members[i][2], "play_count")]]

\* json.load(f): the dict built member by member; a key met again keeps its
\* place and takes the later value
json_load(members) ==
    LET F[i \in 0..Len(members)] ==
            IF i = 0 THEN << >>
            ELSE LET e == [url |-> members[i][1],
                           timestamp |-> Field(members[i][2], "timestamp"),
                           play_count |-> Field(members[i][2], "play_count")]
                     d == F[i - 1]
                 IN  IF e.url \in Keys(d)
                     THEN [k \in 1..Len(d) |-> IF d[k].url = e.url THEN e ELSE d[k]]
                     ELSE Append(d, e)
    IN  F[Len(members)]

JsonFile(h) == [kind |-> "ok", data |-> json_dump(h)]

WriteOutcomes == {"ok", "open_fails", "write_fails"}

\* load_history that never reads the file
load_history_ignores(f) == << >>

\* load_history: the mapping of the file, {} when the file is missing or
\* cannot be opened or parsed
load_history(f) == IF f.kind = "ok" THEN json_load(f.data) ELSE << >>

\* open(history_path, 'w') and json.dump: a failing open leaves the file as
\* it was, a write that fails after the open leaves a truncated file
write_file(f, h, out) ==
    CASE out = "ok"          -> JsonFile(h)
      [] out = "open_fails"  -> f
      [] out = "write_fails" -> CorruptFile

\* save_history that evicts and never rewrites the file
save_history_nowrite(h, f, max, out) ==
    [ history |-> evict(h, max), file |-> f, raised |-> FALSE ]

\* save_history: evict, then rewrite the file; raises when the write fails
save_history(h, f, max, out) ==
    [ history |-> evict(h, max),
      file    |-> write_file(f, evict(h, max), out),
      raised  |-> out # "ok" ]

\* add_to_history
add_to_history(h, f, max, url, now, out) ==
    save_history(add_entry(h, url, now), f, max, out)

\* ---- the state ----
VARIABLES
    impl,         \* which variant runs: "tk" (src/main.py), "qt" (src/src/main.py)
    clock,        \* datetime.now()
    process,      \* self.process: None or the handle of the tracked player
    procState,    \* per player process: "unborn", "alive" or "exited"
    history,      \* self.history
    file,         \* history.json
    max_history,  \* self.max_history
    ui_playing,   \* what update_ui_state last set: Stop enabled, Play disabled
    status,       \* text of the status bar
    last,         \* the handler of the UI thread that ran last, and how it ended
    calls,        \* the process operations that handler made, in order
    fullscreen,   \* the Fullscreen checkbox
    loop,         \* the Loop Video checkbox
    updater       \* the background thread that updates yt-dlp

vars == << impl, clock, process, procState, history, file, max_history,
           ui_playing, status, last, calls, fullscreen, loop, updater >>

Alive == { p \in Pids : procState[p] = "alive" }

HasFreePid == \E p \in Pids : procState[p] = "unborn"

\* the handle Popen returns next
NextPid == CHOOSE p \in Pids :
              procState[p] = "unborn" /\ \A q \in Pids : q < p => procState[q] # "unborn"

\* what the last handler did (op), how it ended (result), the trimmed url
\* and the handle tracked when it began, the modal dialog it showed, whether
\* an exception left the handler, and the entry add_to_history wrote for the
\* url before it saved (NoEntry when it was not called), and the argument
\* list it gave subprocess.Popen (empty when it did not get there)
NoEntry == [url |-> "", timestamp |-> 0, play_count |-> 0]

Did(op, result, url, prev, modal, raised) ==
    [op |-> op, result |-> result, url |-> url, prev |-> prev,
     modal |-> modal, raised |-> raised, entry |-> NoEntry, argv |-> << >>]

\* ---- outcomes of the calls into the operating system ----
TermOutcomes  == {"ok", "raises"}       \* Popen.terminate()
WaitOutcomes  == {"exited", "timeout"}  \* Popen.wait(timeout=5)
KillOutcomes  == {"ok", "raises"}       \* Popen.kill()
SpawnOutcomes == {"ok", "fails"}        \* subprocess.Popen(cmd)

StopOutcomes == [term : TermOutcomes, wait : WaitOutcomes, kill : KillOutcomes]

\* the outcomes stop_video can observe for the handle proc: those of calls
\* it does not reach are fixed
StopOutcomesFor(im, proc, ps) ==
    { o \in StopOutcomes :
        /\ (proc = None \/ ps[proc] # "alive") => o.term = "ok"
        /\ (im = "tk" \/ proc = None \/ ps[proc] # "alive" \/ o.term = "raises")
              => o.wait = "exited"
        /\ o.wait = "exited" => o.kill = "ok" }

\* stop_video that forgets the handle without asking the process to end
stop_video_forget(im, proc, ps, o) ==
    [process |-> None, procState |-> ps, calls |-> << >>, error |-> FALSE]

\* ---- stop_video, up to its update of the UI ----
\* Tk: terminate() and forget the handle.  Qt: terminate(), wait up to 5 s,
\* kill() on timeout, then forget the handle.  An exception from any of them
\* is logged and skips the line that forgets the handle.  terminate() on a
\* process that has exited does nothing; a terminated process exits when it
\* gets to it (action PlayerExits), a killed one at once.  The entry of
\* wait in calls carries what wait found.
stop_video(im, proc, ps, o) ==
    IF proc = None
    THEN [process |-> None, procState |-> ps, calls |-> << >>, error |-> FALSE]
    ELSE IF ps[proc] = "alive" /\ o.term = "raises"
    THEN [process |-> proc, procState |-> ps,
          calls |-> << <<"terminate", proc>> >>, error |-> TRUE]
    ELSE IF im = "tk"
    THEN [process |-> None, procState |-> ps,
          calls |-> << <<"terminate", proc>> >>, error |-> FALSE]
    ELSE IF ps[proc] = "exited" \/ o.wait = "exited"
    THEN [process |-> None, procState |-> [ps EXCEPT ![proc] = "exited"],
          calls |-> << <<"terminate", proc>>, <<"wait", proc, "exited">> >>,
          error |-> FALSE]
    ELSE IF o.kill = "raises"
    THEN [process |-> proc, procState |-> ps,
          calls |-> << <<"terminate", proc>>, <<"wait", proc, "timeout">>,
                       <<"kill", proc>> >>,
          error |-> TRUE]
    ELSE [process |-> None, procState |-> [ps EXCEPT ![proc] = "exited"],
          calls |-> << <<"terminate", proc>>, <<"wait", proc, "timeout">>,
                       <<"kill", proc>> >>,
          error |-> FALSE]

\* check_video_status that drops the handle whatever poll() returns
check_video_status_always(proc, ps) ==
    [process |-> None, completed |-> proc # None]

\* check_video_status that never sees the process exit
check_video_status_never(proc, ps) ==
    [process |-> proc, completed |-> FALSE]

\* ---- check_video_status: poll() the tracked process ----
\* returns the handle to keep and whether completion was seen
check_video_status(proc, ps) ==
    IF proc # None /\ ps[proc] = "exited"
    THEN [process |-> None, completed |-> TRUE]
    ELSE [process |-> proc, completed |-> FALSE]

\* the status text check_video_status sets on completion
CompletedStatus(im) == IF im = "tk" THEN "Ready" ELSE "Playback completed"

\* ---- play_video: the argument list of the player ----
MpvPath == "tools/mpv.exe"     \* self.mpv_path

\* build_cmd with the url ahead of the quiet flag
build_cmd_url_first(fs, lp, url) ==
    << MpvPath >>
    \o (IF fs THEN << "--fullscreen" >> ELSE << >>)
    \o (IF lp THEN << "--loop-file=inf" >> ELSE << >>)
    \o << url, "--really-quiet" >>

build_cmd(fs, lp, url) ==
    << MpvPath >>
    \o (IF fs THEN << "--fullscreen" >> ELSE << >>)
    \o (IF lp THEN << "--loop-file=inf" >> ELSE << >>)
    \o << "--really-quiet", url >>

\* ---- the updater thread: run_update (Tk) / update (Qt) ----
\* pc: the statement the thread is at; child: the yt-dlp -U process;
\* seen: what communicate(timeout=30) came back with; logged: the message the
\* thread logged last
UpdaterStarted == [pc |-> "check", child |-> "none", seen |-> "none", logged |-> "none"]

\* the level of each message of the updater
LogLevel(msg) ==
    CASE msg = "none"          -> "none"
      [] msg = "updating"      -> "info"
      [] msg = "success"       -> "info"
      [] msg = "not_found"     -> "warning"
      [] msg = "returned_code" -> "warning"
      [] msg = "timed_out"     -> "warning"
      [] msg = "error"         -> "warning"

\* what the thread logs once communicate has returned or timed out.  Tk looks
\* at the return code and catches TimeoutExpired by name; Qt logs success
\* after any return and takes the timeout in its one except clause.
updater_outcome(im, seen) ==
    IF im = "tk"
    THEN CASE seen = "rc_zero"    -> "success"
           [] seen = "rc_nonzero" -> "returned_code"
           [] seen = "timeout"    -> "timed_out"
    ELSE CASE seen = "rc_zero"    -> "success"
           [] seen = "rc_nonzero" -> "success"
           [] seen = "timeout"    -> "error"

\* play_video without the validate_url check
play_rejects_empty_only(url) == IF url = "" THEN "empty" ELSE "accepted"

\* ---- play_video: the two early returns ----
play_rejects(url) ==
    IF url = "" THEN "empty"
    ELSE IF ~ validate_url(url) THEN "invalid"
    ELSE "accepted"

\* ---- construction: __init__ up to load_history ----
Constructed ==
    /\ clock = 0
    /\ process = None
    /\ procState = [p \in Pids |-> "unborn"]
    /\ history = load_history(file)
    /\ ui_playing = FALSE
    /\ status = "Ready"
    /\ last = Did("init", "", "", None, "none", FALSE)
    /\ calls = << >>
    /\ fullscreen = TRUE
    /\ loop = FALSE
    /\ updater = UpdaterStarted

\* a first start: the default configuration, no history file
Init ==
    /\ impl \in Impls
    /\ max_history = DefaultMaxHistory
    /\ file = NoFile
    /\ Constructed

\* ---- play_video ----
\* Tk binds Control-p to play_video whatever the state of the Play button;
\* Qt reaches it through the Play button only, which is disabled while the
\* UI shows playback.  texts, stops and writes are the texts the entry may
\* hold and the outcomes terminate/wait/kill and the file write may have.
PlayVideo(texts, stops, writes) ==
    /\ impl = "tk" \/ ~ ui_playing
    /\ \E text \in texts :
        LET url == strip(text)
        IN  IF play_rejects(url) # "accepted"
            THEN /\ last' = Did("play", play_rejects(url), url, process,
                                "validation", FALSE)
                 /\ calls' = << >>
                 /\ UNCHANGED << impl, clock, process, procState, history,
                                 file, max_history, ui_playing, status,
                                 fullscreen, loop, updater >>
            ELSE /\ HasFreePid
                 /\ \E o \in stops \cap StopOutcomesFor(impl, process, procState),
                       sp \in SpawnOutcomes :
                     LET sv == stop_video(impl, process, procState, o)
                     IN  IF sp = "fails"
                         THEN /\ process' = sv.process
                              /\ procState' = sv.procState
                              /\ calls' = sv.calls
                              /\ ui_playing' = FALSE
                              /\ status' = "Ready"
                              /\ last' = [ Did("play", "spawn_failed", url, process,
                                               "playback", FALSE)
                                           EXCEPT !.argv = build_cmd(fullscreen, loop, url) ]
                              /\ UNCHANGED << history, file >>
                         ELSE \E wr \in writes :
                              LET rec == add_to_history(history, file, max_history,
                                                        url, clock, wr)
                              IN  /\ process' = NextPid
                                  /\ procState' = [sv.procState EXCEPT ![NextPid] = "alive"]
                                  /\ calls' = Append(sv.calls, <<"spawn", NextPid>>)
                                  /\ history' = rec.history
                                  /\ file' = rec.file
                                  /\ ui_playing' = ~ rec.raised
                                  /\ status' = IF rec.raised THEN "Ready"
                                               ELSE "Playing video..."
                                  /\ last' = [ Did("play",
                                                   IF rec.raised THEN "save_failed"
                                                   ELSE "playing",
                                                   url, process,
                                                   IF rec.raised THEN "playback" ELSE "none",
                                                   FALSE)
                                               EXCEPT !.entry =
                                                   Entry(add_entry(history, url, clock), url),
                                                      !.argv =
                                                   build_cmd(fullscreen, loop, url) ]
                 /\ UNCHANGED << impl, clock, max_history, fullscreen, loop, updater >>

\* ---- stop_video, called by the user ----
\* Tk binds Escape to stop_video; Qt reaches it through the Stop button,
\* enabled while the UI shows playback.
StopVideo(stops) ==
    /\ impl = "tk" \/ ui_playing
    /\ \E o \in stops \cap StopOutcomesFor(impl, process, procState) :
        LET sv == stop_video(impl, process, procState, o)
        IN  /\ process' = sv.process
            /\ procState' = sv.procState
            /\ calls' = sv.calls
            /\ ui_playing' = FALSE
            /\ status' = "Ready"
            /\ last' = Did("stop",
                           IF sv.error THEN "error_logged"
                           ELSE IF process = None THEN "idle" ELSE "stopped",
                           "", process, "none", FALSE)
    /\ UNCHANGED << impl, clock, history, file, max_history,
                    fullscreen, loop, updater >>

\* ---- check_video_status, fired by the one-second timer ----
CheckVideoStatus ==
    LET r == check_video_status(process, procState)
    IN  /\ process' = r.process
        /\ ui_playing' = IF r.completed THEN FALSE ELSE ui_playing
        /\ status' = IF r.completed THEN CompletedStatus(impl) ELSE status
        /\ calls' = IF process = None THEN << >> ELSE << <<"poll", process>> >>
        /\ last' = Did("poll",
                       IF r.completed THEN "completed"
                       ELSE IF process = None THEN "idle" ELSE "running",
                       "", process, "none", FALSE)
        /\ UNCHANGED << impl, clock, procState, history, file, max_history,
                        fullscreen, loop, updater >>

\* ---- save_settings (Tk) / save_settings_dialog (Qt) ----
\* Tk takes any text: int(text) sets max_history, a ValueError shows an
\* error and returns.  Qt takes the value of a spin box of minimum 1.  Tk
\* disables the Settings button while the UI shows playback.
MaxHistoryInputs(im) == IF im = "tk" THEN (-1)..MaxHist ELSE 1..MaxHist

SaveSettings ==
    /\ impl = "qt" \/ ~ ui_playing
    /\ \/ \E n \in MaxHistoryInputs(impl) :
            /\ max_history' = n
            /\ last' = Did("settings", "saved", "", process,
                           IF impl = "qt" THEN "settings_saved" ELSE "none",
                           FALSE)
       \/ /\ impl = "tk"
          /\ max_history' = max_history
          /\ last' = Did("settings", "not_a_number", "", process,
                         "settings_error", FALSE)
    /\ calls' = << >>
    /\ UNCHANGED << impl, clock, process, procState, history, file,
                    ui_playing, status, fullscreen, loop, updater >>

\* ---- clear_history, confirmed by the user ----
ClearHistory(writes) ==
    /\ impl = "qt" \/ ~ ui_playing
    /\ \E wr \in writes :
        LET r == save_history(<< >>, file, max_history, wr)
        IN  /\ history' = r.history
            /\ file' = r.file
            /\ last' = Did("clear", IF r.raised THEN "save_failed" ELSE "cleared",
                           "", process, "none", r.raised)
    /\ calls' = << >>
    /\ UNCHANGED << impl, clock, process, procState, max_history,
                    ui_playing, status, fullscreen, loop, updater >>

\* ---- on_closing (Tk) / closeEvent (Qt), and the next start ----
\* the window is closed: stop_video, then the application ends; started
\* again, __init__ loads the history file into a new object
CloseAndRestart(stops) ==
    \E o \in stops \cap StopOutcomesFor(impl, process, procState) :
        /\ procState' = stop_video(impl, process, procState, o).procState
        /\ process' = None
        /\ history' = load_history(file)
        /\ ui_playing' = FALSE
        /\ status' = "Ready"
        /\ last' = Did("init", "", "", None, "none", FALSE)
        /\ calls' = << >>
        /\ fullscreen' = TRUE
        /\ loop' = FALSE
        /\ updater' = UpdaterStarted
        /\ UNCHANGED << impl, clock, file, max_history >>

\* ---- on_closing (Tk) / closeEvent (Qt) alone ----
\* stop_video, then the window is destroyed and the main loop ends; the
\* players the application started live on in the operating system
CloseWindow(stops) ==
    /\ last.op # "close"
    /\ \E o \in stops \cap StopOutcomesFor(impl, process, procState) :
        LET sv == stop_video(impl, process, procState, o)
        IN  /\ process' = sv.process
            /\ procState' = sv.procState
            /\ calls' = sv.calls \o << <<"destroy", None>> >>
            /\ ui_playing' = FALSE
            /\ status' = "Ready"
            /\ last' = Did("close",
                           IF sv.error THEN "error_logged"
                           ELSE IF process = None THEN "idle" ELSE "stopped",
                           "", process, "none", FALSE)
    /\ UNCHANGED << impl, clock, history, file, max_history,
                    fullscreen, loop, updater >>

\* ---- the option checkboxes, enabled at all times ----
ToggleFullscreen ==
    /\ fullscreen' = ~ fullscreen
    /\ UNCHANGED << impl, clock, process, procState, history, file, max_history,
                    ui_playing, status, last, calls, loop, updater >>

ToggleLoop ==
    /\ loop' = ~ loop
    /\ UNCHANGED << impl, clock, process, procState, history, file, max_history,
                    ui_playing, status, last, calls, fullscreen, updater >>

\* ---- validate_url, called on its own ----
ValidateUrl(texts) ==
    /\ \E text \in texts :
          last' = Did("validate",
                      IF validate_url(text) THEN "valid" ELSE "invalid",
                      text, process, "none", FALSE)
    /\ calls' = << >>
    /\ UNCHANGED << impl, clock, process, procState, history, file, max_history,
                    ui_playing, status, fullscreen, loop, updater >>

\* ---- the updater thread, statement by statement ----
\* os.path.exists(self.ytdlp_path): a missing binary is logged and the thread
\* returns; otherwise "Updating yt-dlp..." is logged
UpdaterChecks ==
    /\ updater.pc = "check"
    /\ \E exists \in BOOLEAN :
          updater' = IF exists
                     THEN [updater EXCEPT !.pc = "spawn", !.logged = "updating"]
                     ELSE [updater EXCEPT !.pc = "done", !.logged = "not_found"]
    /\ UNCHANGED << impl, clock, process, procState, history, file, max_history,
                    ui_playing, status, last, calls, fullscreen, loop >>

\* subprocess.Popen([self.ytdlp_path, "-U"], ...): a failure goes to the
\* except clause for Exception
UpdaterSpawns ==
    /\ updater.pc = "spawn"
    /\ \E sp \in SpawnOutcomes :
          updater' = IF sp = "ok"
                     THEN [updater EXCEPT !.pc = "communicate", !.child = "running"]
                     ELSE [updater EXCEPT !.pc = "done", !.logged = "error"]
    /\ UNCHANGED << impl, clock, process, procState, history, file, max_history,
                    ui_playing, status, last, calls, fullscreen, loop >>

\* communicate that hands its result to the UI thread, which drops the player
UpdaterCommunicatesShared ==
    /\ updater.pc = "communicate"
    /\ updater' = [updater EXCEPT !.pc = "done", !.seen = "timeout", !.logged = "error"]
    /\ process' = None
    /\ UNCHANGED << impl, clock, procState, history, file, max_history,
                    ui_playing, status, last, calls, fullscreen, loop >>

\* communicate(timeout=30) returns with the return code of the child, or
\* raises TimeoutExpired when the child still runs after 30 s (the child is
\* left running); then the outcome is logged
UpdaterCommunicates ==
    /\ updater.pc = "communicate"
    /\ LET seen == IF updater.child = "running" THEN "timeout" ELSE updater.child
       IN  updater' = [updater EXCEPT !.pc = "done", !.seen = seen,
                                      !.logged = updater_outcome(impl, seen)]
    /\ UNCHANGED << impl, clock, process, procState, history, file, max_history,
                    ui_playing, status, last, calls, fullscreen, loop >>

\* the yt-dlp -U process ends, with return code 0 or another
UpdaterChildExits ==
    /\ updater.child = "running"
    /\ \E rc \in {"rc_zero", "rc_nonzero"} :
          updater' = [updater EXCEPT !.child = rc]
    /\ UNCHANGED << impl, clock, process, procState, history, file, max_history,
                    ui_playing, status, last, calls, fullscreen, loop >>

\* ---- the environment ----
\* a player process ends: playback finished, the user closed the player, or
\* a terminate() sent earlier took effect
PlayerExits ==
    \E p \in Pids :
        /\ procState[p] = "alive"
        /\ procState' = [procState EXCEPT ![p] = "exited"]
        /\ UNCHANGED << impl, clock, process, history, file, max_history,
                        ui_playing, status, last, calls, fullscreen, loop,
                        updater >>

\* time passes
Tick ==
    /\ clock < MaxClock
    /\ clock' = clock + 1
    /\ UNCHANGED << impl, process, procState, history, file, max_history,
                    ui_playing, status, last, calls, fullscreen, loop, updater >>

\* ---- the process controller at work: play, stop, poll and the player ----
Next ==
    \/ PlayVideo(ControllerTexts, StopOutcomes, WriteOutcomes)
    \/ StopVideo(StopOutcomes)
    \/ CheckVideoStatus
    \/ PlayerExits

Spec == Init /\ [][Next]_vars

\* the controller with its timer: root.after(1000, ...) at the end of every
\* check_video_status (Tk) and the repeating QTimer (Qt) fire the poll again
\* and again
SpecFair == Spec /\ WF_vars(CheckVideoStatus)

\* ---- the history store at work: records, clears and settings over time ----
\* a first start with max_history set in config.ini
InitHistory ==
    /\ impl \in Impls
    /\ max_history = MaxHist
    /\ file = NoFile
    /\ Constructed

\* terminate, wait and kill do what they are asked
StopsClean == { o \in StopOutcomes : o.term = "ok" /\ o.wait = "exited" }

NextHistory ==
    \/ PlayVideo(HistoryTexts, StopsClean, {"ok"})
    \/ StopVideo(StopsClean)
    \/ SaveSettings
    \/ ClearHistory(WriteOutcomes)
    \/ Tick

SpecHistory == InitHistory /\ [][NextHistory]_vars

\* ---- the history file over several runs: records, clears, restarts ----
\* the history files a start may find
StartFiles ==
    { NoFile, CorruptFile, UnreadableFile,
      JsonFile(<< [url |-> "youtube.com/live/d", timestamp |-> 0, play_count |-> 1],
                  [url |-> "youtu.be/a", timestamp |-> 0, play_count |-> 2] >>) }

PersistTexts == { "youtu.be/a", "youtube.com/live/d" }

InitPersist ==
    /\ impl \in Impls
    /\ max_history = MaxHist
    /\ file \in StartFiles
    /\ Constructed

NextPersist ==
    \/ PlayVideo(PersistTexts, StopsClean, WriteOutcomes)
    \/ ClearHistory(WriteOutcomes)
    \/ CloseAndRestart(StopsClean)
    \/ Tick

SpecPersist == InitPersist /\ [][NextPersist]_vars

\* ---- the validator on its own, over strings built from parts ----
ValidatorInputs ==
    { sch \o w \o body \o id \o rest :
        sch  \in {"", "http://", "https://", "ftp://"},
        w    \in {"", "www."},
        body \in Patterns \cup {"vimeo.com/", "youtube.com/watch", "youtube.com/embed/"},
        id   \in {"", "abc123", "-_x", "?"},
        rest \in {"", "&a b"} }
    \cup { "https://vimeo.com/12345", "youtu.be/abc123?t=5", " youtu.be/abc123", "HTTPS://youtu.be/abc123",
           "www.https://youtu.be/abc123", "https://m.youtube.com/watch?v=abc123",
           "see youtu.be/abc123" }

NextValidator == ValidateUrl(ValidatorInputs)

SpecValidator == Init /\ [][NextValidator]_vars

\* ---- launching the player under every setting of the options ----
LaunchTexts == { " youtu.be/a\n", "https://www.youtube.com/watch?v=b" }

NextLaunch ==
    \/ PlayVideo(LaunchTexts, StopsClean, {"ok"})
    \/ StopVideo(StopsClean)
    \/ ToggleFullscreen
    \/ ToggleLoop

SpecLaunch == Init /\ [][NextLaunch]_vars

\* ---- the updater thread beside the UI thread ----
UpdaterTexts == { "", " youtu.be/a\n" }

NextUpdater ==
    \/ PlayVideo(UpdaterTexts, StopsClean, {"ok"})
    \/ StopVideo(StopsClean)
    \/ CheckVideoStatus
    \/ PlayerExits
    \/ UpdaterChecks
    \/ UpdaterSpawns
    \/ UpdaterCommunicates
    \/ UpdaterChildExits

SpecUpdater == Init /\ [][NextUpdater]_vars

\* ---- the controller until its window is closed ----
\* no handler runs once the main loop has ended
Running == last.op # "close"

NextClose ==
    \/ Running /\ PlayVideo(ControllerTexts, StopOutcomes, WriteOutcomes)
    \/ Running /\ StopVideo(StopOutcomes)
    \/ Running /\ CheckVideoStatus
    \/ CloseWindow(StopOutcomes)
    \/ PlayerExits

SpecClose == Init /\ [][NextClose]_vars

TypeOK ==
    /\ impl \in Impls
    /\ clock \in 0..MaxClock
    /\ process \in {None} \cup Pids
    /\ procState \in [Pids -> {"unborn", "alive", "exited"}]
    /\ max_history \in ((-1)..MaxHist) \cup {DefaultMaxHistory}
    /\ ui_playing \in BOOLEAN
    /\ file.kind \in {"ok", "missing", "corrupt", "unreadable"}
    /\ Cardinality(Keys(history)) = Len(history)

\* ======================= the claims =======================

Terminates == { i \in 1..Len(calls) : calls[i][1] = "terminate" }
Kills      == { i \in 1..Len(calls) : calls[i][1] = "kill" }
Spawns     == { i \in 1..Len(calls) : calls[i][1] = "spawn" }

\* this step spawned a player: play_video went on to add_to_history
Spawned == \E p \in Pids : procState[p] = "unborn" /\ procState'[p] = "alive"

\* the play_video steps of the two specifications
ControllerPlay == PlayVideo(ControllerTexts, StopOutcomes, WriteOutcomes)

\* C1: at most one player process launched by the application is alive at
\* any time, also while a play switches players and when terminating the
\* previous player failed.
C1_AtMostOneAlive == Cardinality(Alive) <= 1

\* C2: the number of history entries is at most max_history in every state,
\* also after a settings save that changes max_history.
C2_HistoryWithinMax == Len(history) <= max_history

\* the keys a record call of this step chooses among when it evicts, and the
\* timestamp each has then
Candidates == Keys(history) \cup {last'.url}

TimestampAtEviction(k) ==
    IF k = last'.url THEN clock ELSE Entry(history, k).timestamp

EvictedKeys == Candidates \ Keys(history')

\* what C3 says of a record call that makes the history exceed max_history,
\* but for the size it ends with
EvictsOldest ==
    /\ Keys(history') \subseteq Candidates
    /\ \A e \in EvictedKeys, k \in Keys(history') :
          Entry(history', k).timestamp >= TimestampAtEviction(e)
    /\ ( /\ max_history = 2
         /\ Len(history) = 2
         /\ history[1].play_count = 1
         /\ history[2].play_count = 1
         /\ last'.url \notin Keys(history) )
       => Keys(history') = {history[2].url, last'.url}

C5_TerminateOnceBeforeSpawn ==
    ( /\ last.op = "play"
      /\ last.prev # None
      /\ last.url # "" /\ validate_url(last.url) )
    => /\ Len(calls) >= 1
       /\ calls[1] = <<"terminate", last.prev>>
       /\ Terminates = {1}
       /\ \A i \in Spawns : i > 1 /\ calls[i][2] # last.prev

\* a play switched players: terminate on the old handle, then the spawn
C5_Witness ==
    /\ last.op = "play" /\ last.prev # None
    /\ Spawns # {}
    /\ process # None /\ process # last.prev

\* C6: a poll that finds the tracked process exited clears the handle and
\* calls neither terminate nor kill; a poll that finds it running, or no
\* process tracked, changes nothing.
C6_PollClearsOnlyExited ==
    [][ CheckVideoStatus =>
          IF process # None /\ procState[process] = "exited"
          THEN /\ process' = None
               /\ Terminates' = {} /\ Kills' = {}
               /\ procState' = procState
          ELSE UNCHANGED << process, procState, history, file, max_history,
                            ui_playing, status >> ]_vars

\* a poll found the tracked process exited
C6_Witness ==
    /\ last.op = "poll" /\ last.prev # None
    /\ procState[last.prev] = "exited"
    /\ process = None
    /\ calls = << <<"poll", last.prev>> >>

\* C7: after stop() no process is tracked, whether terminating succeeded or
\* raised; the error is logged and does not leave stop().
C7_StopClearsHandle ==
    last.op = "stop" => (process = None /\ ~ last.raised)

\* C8: a play whose trimmed url is empty or fails validation changes nothing:
\* no terminate, no spawn, the tracked process, the history and the history
\* file as they were.
C8_RejectedPlayChangesNothing ==
    [][ (ControllerPlay /\ (last'.url = "" \/ ~ validate_url(last'.url)))
          => /\ calls' = << >>
             /\ UNCHANGED << process, procState, history, file, max_history,
                             ui_playing, status >> ]_vars

\* an invalid url was rejected while a player ran, which still runs
C8_Witness ==
    /\ last.op = "play" /\ last.url = "https://vimeo.com/12345"
    /\ process # None /\ procState[process] = "alive"
    /\ ui_playing
    /\ calls = << >>

\* C9: when the spawn fails the error stays inside play, no process is
\* tracked afterwards and the history is neither created nor updated.
C9_SpawnFailureLeavesIdle ==
    [][ (ControllerPlay /\ last'.result = "spawn_failed")
          => /\ process' = None
             /\ history' = history /\ file' = file
             /\ ~ last'.raised ]_vars

RecordedOrCleared ==
    \/ last.op = "play" /\ last.result \in {"playing", "save_failed"}
    \/ last.op = "clear"

\* the write of the history file by the last record or clear failed
WriteFailed ==
    \/ last.op = "play" /\ last.result = "save_failed"
    \/ last.op = "clear" /\ last.raised

\* the mapping a history file of kind "ok" holds, read member by member
SameAsFile ==
    /\ Len(history) = Len(file.data)
    /\ \A i \in 1..Len(history) :
          /\ history[i].url = file.data[i][1]
          /\ <<"timestamp", history[i].timestamp>> = file.data[i][2][1]
          /\ <<"play_count", history[i].play_count>> = file.data[i][2][2]

C12_LoadRecovers ==
    last.op = "init" =>
        /\ ~ last.raised
        /\ file.kind \in {"missing", "unreadable", "corrupt"} => history = << >>
        /\ file.kind = "ok" => SameAsFile

\* a start after a write that failed half way: the file cannot be parsed and
\* the history is empty, where the run before had recorded an entry
C12_Witness ==
    /\ last.op = "init"
    /\ file.kind = "corrupt"
    /\ history = << >>
    /\ \E p \in Pids : procState[p] # "unborn"

\* the strings C13 describes: an optional http:// or https://, an optional
\* www., one of the five shapes, and at least one word character or '-' as
\* the first character of the ID; anything may follow
AcceptedShape(s) ==
    \E sch \in {"", "http://", "https://"}, w \in {"", "www."},
       shape \in { "youtube.com/watch?v=", "youtu.be/", "youtube.com/shorts/",
                   "youtube.com/playlist?list=", "youtube.com/live/" } :
        LET pre == sch \o w \o shape
        IN  /\ Len(s) > Len(pre)
            /\ SubSeq(s, 1, Len(pre)) = pre
            /\ SubSeq(s, Len(pre) + 1, Len(pre) + 1) \in WordChars \cup {"-"}

\* C13: is_valid is true exactly for the strings of the accepted shape,
\* whatever follows the matched prefix, and false for every other string;
\* "https://www.youtube.com/watch?v=abc123" and "youtu.be/abc123?t=5" are
\* accepted and "https://vimeo.com/12345" is rejected.
C13_ValidExactlyAcceptedShapes ==
    /\ last.op = "validate" => (last.result = "valid" <=> AcceptedShape(last.url))
    /\ validate_url("https://www.youtube.com/watch?v=abc123")
    /\ validate_url("youtu.be/abc123?t=5")
    /\ ~ validate_url("https://vimeo.com/12345")

\* the validator accepted a short link followed by text that is no query
C13_Witness ==
    /\ last.op = "validate"
    /\ last.url = "https://www.youtu.be/abc123&a b"
    /\ last.result = "valid"

\* the play_video steps of the launches
LaunchPlay == PlayVideo(LaunchTexts, StopsClean, {"ok"})

\* the flag is in the argument list exactly when its option is selected
FlagIff(argv, flag, selected) == (\E i \in 1..Len(argv) : argv[i] = flag) <=> selected

\* C14: whatever the fullscreen and loop options, the player is spawned with
\* the binary path first, then --fullscreen iff fullscreen is selected, then
\* --loop-file=inf iff loop is selected, then --really-quiet, then the
\* trimmed url last, and nothing else.
C14_ArgumentList ==
    [][ (LaunchPlay /\ last'.result \in {"playing", "spawn_failed"})
          => LET argv == last'.argv
                 n    == Len(argv)
             IN  /\ n = 3 + (IF fullscreen THEN 1 ELSE 0) + (IF loop THEN 1 ELSE 0)
                 /\ argv[1] = MpvPath
                 /\ FlagIff(argv, "--fullscreen", fullscreen)
                 /\ FlagIff(argv, "--loop-file=inf", loop)
                 /\ fullscreen => argv[2] = "--fullscreen"
                 /\ loop => argv[n - 2] = "--loop-file=inf"
                 /\ argv[n - 1] = "--really-quiet"
                 /\ argv[n] = last'.url
                 /\ argv[n] \in {"youtu.be/a", "https://www.youtube.com/watch?v=b"} ]_vars

\* a player was spawned with both options selected
C14_Witness ==
    /\ last.op = "play" /\ last.result = "playing"
    /\ fullscreen /\ loop
    /\ last.argv = << MpvPath, "--fullscreen", "--loop-file=inf", "--really-quiet",
                      "youtu.be/a" >>

\* C15: stop() on a tracked process requests terminate first, then waits for
\* the exit, and kills only when the wait timed out: a process that exits in
\* time is never killed, one that does not is always killed before stop()
\* returns.
C15_TerminateWaitKill ==
    (last.op = "stop" /\ last.prev # None) =>
        /\ Len(calls) \in {2, 3}
        /\ calls[1] = <<"terminate", last.prev>>
        /\ calls[2] \in { <<"wait", last.prev, "exited">>, <<"wait", last.prev, "timeout">> }
        /\ (calls[2][3] = "timeout") <=> (Len(calls) = 3)
        /\ Len(calls) = 3 => calls[3] = <<"kill", last.prev>>

\* C16: once the tracked player has exited, the poll, fired again and again,
\* clears the handle and puts the UI in the not-playing state, unless a play
\* has replaced the player meanwhile; the poll can always fire again.
C16_ExitEventuallyNoticed ==
    /\ \A p \in Pids :
          (process = p /\ procState[p] = "exited")
             ~> ( \/ process = None /\ ~ ui_playing
                  \/ process \in Pids \ {p} )
    /\ [](ENABLED CheckVideoStatus)

\* the poll noticed the exit of a player nobody had stopped
C16_Witness ==
    /\ last.op = "poll" /\ last.result = "completed"
    /\ process = None /\ ~ ui_playing
    /\ procState[last.prev] = "exited"

\* C17: when the poll finds that the tracked process exited on its own, the
\* status shown is a completed status, not the "Ready" shown after a stop.
C17_CompletedStatusDistinct ==
    /\ last.op = "stop" => status = "Ready"
    /\ (last.op = "poll" /\ last.result = "completed") => status # "Ready"

\* C20: a modal error is shown only for an empty or malformed url and for a
\* spawn error; a failed terminate and a failed write of the history during
\* play show none.
C20_ModalOnlyValidationOrSpawn ==
    last.modal # "none" => last.result \in {"empty", "invalid", "spawn_failed"}

\* play and stop as the UI thread runs them beside the updater
UpdaterPlay == PlayVideo(UpdaterTexts, StopsClean, {"ok"})
UpdaterStop == StopVideo(StopsClean)

\* C18: the updater never blocks or alters playback: no step of the updater
\* thread changes the tracked handle, the players, the history, its file or
\* what the UI shows, and while the updater is pending play, stop and poll
\* can run whenever the UI alone allows them.
C18_UpdaterApart ==
    /\ [][ updater' # updater
             => UNCHANGED << process, procState, history, file, max_history,
                             ui_playing, status, last, calls >> ]_vars
    /\ [] ( updater.pc # "done" =>
              /\ ENABLED CheckVideoStatus
              /\ (ENABLED UpdaterPlay) <=> (impl = "tk" \/ ~ ui_playing)
              /\ (ENABLED UpdaterStop) <=> (impl = "tk" \/ ui_playing) )

\* the updater waits for its child while a player plays
C18_Witness ==
    /\ updater.pc = "communicate" /\ updater.child = "running"
    /\ process # None /\ procState[process] = "alive"
    /\ ui_playing

\* C19: the updater logs success only when its process ended with return
\* code 0 within the timeout; another return code and a timeout are logged
\* as warnings, not as success; a missing binary means no spawn.
C19_UpdaterLogsOutcome ==
    updater.pc = "done" =>
        /\ updater.logged = "success" => updater.seen = "rc_zero"
        /\ updater.seen \in {"rc_nonzero", "timeout"}
              => (LogLevel(updater.logged) = "warning" /\ updater.logged # "success")
        /\ updater.logged = "not_found" => updater.child = "none"

\* the requests C21 compares: spawn, terminate and kill
IsRequest(c) == c[1] \in {"spawn", "terminate", "kill"}

\* C21: the two variants are equivalent on the core: from the same state,
\* the same event with the same outcomes of the external calls leaves both
\* with the same tracked or untracked state and the same spawn, terminate
\* and kill requests.  stop_video, alone or at the start of a play, is the
\* one step of the core the variants write differently.
C21_VariantsAgree ==
    \A o \in StopOutcomes :
        LET tk == stop_video("tk", process, procState, o)
            qt == stop_video("qt", process, procState, o)
        IN  /\ (tk.process = None) <=> (qt.process = None)
            /\ SelectSeq(tk.calls, IsRequest) = SelectSeq(qt.calls, IsRequest)

\* C22: after every play, stop and poll the UI shows playback exactly when a
\* player process is tracked, also when the history write fails after the
\* spawn and when terminate raises during stop.
C22_UiPlayingIffTracked ==
    last.op \in {"play", "stop", "poll"} => (ui_playing <=> process # None)

\* C23: whenever max_history is at least 1, the URL passed to a record call
\* is in the history when the call returns, also with several entries on
\* one timestamp and with the history above max_history before the call.
C23_RecordedUrlKept ==
    [][ (Spawned /\ max_history >= 1) => last'.url \in Keys(history') ]_vars

\* C24: closing the window while a player is tracked requests termination
\* of that player before the window is destroyed, and no player the
\* application started is alive once the close handler has finished.
C24_CloseLeavesNoPlayer ==
    last.op = "close" =>
        /\ last.prev # None =>
              \E i \in Terminates :
                  /\ calls[i][2] = last.prev
                  /\ \A j \in 1..Len(calls) : calls[j][1] = "destroy" => i < j
        /\ Alive = {}

====
